---- MODULE Spec2Model ----
(***************************************************************************)
(* Model of backend/generate-recipe/lambda_function.py: the Lambda handler *)
(* that builds a prompt, calls the Bedrock model, parses the generated     *)
(* text into a recipe and stores it in DynamoDB.                           *)
(*                                                                         *)
(* Text is modelled after lexing: a Python str is a sequence of tokens,    *)
(* each token a run of characters.  The two brace characters are tokens of *)
(* their own, and no other token contains a brace, so str.find('{') and    *)
(* str.rfind('}') on the characters are the same searches on the tokens.   *)
(***************************************************************************)
EXTENDS Integers, Sequences, FiniteSets, TLC

VARIABLES
    pc,             \* position of the invocation in the code
    event,          \* the Lambda event, a dict that may have a body
    args,           \* the arguments lambda_handler extracts from the body
    prompt,         \* the value of _build_prompt
    response_text,  \* generated_text, the argument of _parse_recipe_response
    generated,      \* what uuid.uuid4() and datetime.utcnow() gave this invocation
    outcome,        \* how _parse_recipe_response ended: a return or a raise
    invoke_calls,   \* calls of bedrock_runtime.invoke_model, in order
    put_calls,      \* calls of table.put_item, in order: [Item, ok]
    response        \* the value lambda_handler returns

vars == <<pc, event, args, prompt, response_text, generated, outcome,
          invoke_calls, put_calls, response>>

----------------------------------------------------------------------------
(* Bounds of the model.                                                    *)

\* longest generated text enumerated token by token
MaxLen == 4
\* longest run of tokens put before and after an embedded JSON object
MaxPad == 2
\* longest ingredients list of a request
MaxIngredients == 2

----------------------------------------------------------------------------
(* Python values.                                                          *)

\* Python's None
None == "<None>"

\* the values uuid.uuid4() can give, as str
Uuids == {"uuid-1", "uuid-2"}

\* the values datetime.utcnow().isoformat() can give
Timestamps == {"2024-01-01T00:00:00", "2024-01-01T00:00:01"}

\* what one call may be given by uuid.uuid4() and datetime.utcnow()
Generations ==
    {[id |-> "uuid-1", created_at |-> "2024-01-01T00:00:00"],
     [id |-> "uuid-2", created_at |-> "2024-01-01T00:00:01"]}

\* sequences over S of length at most n
RECURSIVE SeqsUpTo(_, _)
SeqsUpTo(S, n) ==
    IF n = 0 THEN {<<>>}
    ELSE LET shorter == SeqsUpTo(S, n - 1)
         IN  shorter \cup {Append(s, x) : s \in {t \in shorter : Len(t) = n - 1}, x \in S}

\* dict.get(key, default)
Get(d, key, default) == IF key \in DOMAIN d THEN d[key] ELSE default

\* d[key] = value on a dict
SetItem(d, key, value) ==
    [k \in (DOMAIN d) \cup {key} |-> IF k = key THEN value ELSE d[k]]

\* the empty dict
EmptyDict == [k \in {} |-> None]

----------------------------------------------------------------------------
(* Tokens of a generated text.                                             *)

LBrace == [type |-> "punct", val |-> "{"]
RBrace == [type |-> "punct", val |-> "}"]
Colon  == [type |-> "punct", val |-> ":"]
Comma  == [type |-> "punct", val |-> ","]
\* a JSON string literal "..." whose content is s
Str(s) == [type |-> "string", val |-> s]
\* a JSON number literal
Num(n) == [type |-> "number", val |-> n]
\* a run of prose that is no JSON token
Text(s) == [type |-> "text", val |-> s]

\* tok is the punctuation token p
Is(tok, p) == tok.type = p.type /\ tok.val = p.val

----------------------------------------------------------------------------
(* json.loads on a token sequence: the object / string / number part of    *)
(* the JSON grammar.  A result is [ok, val, next]: next is the index after *)
(* the value that was read; ok = FALSE is json.JSONDecodeError.            *)

DecodeError == [ok |-> FALSE, val |-> None, next |-> 0]

RECURSIVE ParseValue(_, _)
RECURSIVE ParseMembers(_, _, _)

\* the members of an object after its "{", the first key at index i
ParseMembers(toks, i, acc) ==
    IF i + 1 > Len(toks) \/ toks[i].type # "string" \/ ~Is(toks[i + 1], Colon)
    THEN DecodeError
    ELSE LET v == ParseValue(toks, i + 2)
         IN  IF ~v.ok THEN DecodeError
             ELSE LET members == SetItem(acc, toks[i].val, v.val)
                  IN  IF v.next > Len(toks) THEN DecodeError
                      ELSE IF Is(toks[v.next], RBrace)
                           THEN [ok |-> TRUE, val |-> members, next |-> v.next + 1]
                      ELSE IF Is(toks[v.next], Comma)
                           THEN ParseMembers(toks, v.next + 1, members)
                      ELSE DecodeError

\* one JSON value starting at index i
ParseValue(toks, i) ==
    IF i > Len(toks) THEN DecodeError
    ELSE IF toks[i].type \in {"string", "number"}
         THEN [ok |-> TRUE, val |-> toks[i].val, next |-> i + 1]
    ELSE IF Is(toks[i], LBrace)
         THEN IF i + 1 <= Len(toks) /\ Is(toks[i + 1], RBrace)
              THEN [ok |-> TRUE, val |-> EmptyDict, next |-> i + 2]
              ELSE ParseMembers(toks, i + 1, EmptyDict)
    ELSE DecodeError

\* json.loads(s): one value and nothing after it
Loads(s) ==
    LET v == ParseValue(s, 1)
    IN  IF v.ok /\ v.next = Len(s) + 1 THEN v ELSE DecodeError

----------------------------------------------------------------------------
(* str.find, str.rfind and slicing, 0-based as in Python.                  *)

\* response_text.find(tok): the first index, -1 when there is none
Find(s, tok) ==
    LET hits == {i \in 1..Len(s) : Is(s[i], tok)}
    IN  IF hits = {} THEN -1
        ELSE (CHOOSE i \in hits : \A j \in hits : i <= j) - 1

\* response_text.rfind(tok): the last index, -1 when there is none
RFind(s, tok) ==
    LET hits == {i \in 1..Len(s) : Is(s[i], tok)}
    IN  IF hits = {} THEN -1
        ELSE (CHOOSE i \in hits : \A j \in hits : i >= j) - 1

\* s[start:end] for 0 <= end; a negative start counts from the end of s
Slice(s, start, end) ==
    LET from == IF start >= 0 THEN start
                ELSE IF Len(s) + start >= 0 THEN Len(s) + start ELSE 0
        stop == IF end > Len(s) THEN Len(s) ELSE end
    IN  IF from >= stop THEN <<>> ELSE SubSeq(s, from + 1, stop)

----------------------------------------------------------------------------
(* Exceptions.                                                             *)

\* the classes an exception class is an instance of; json.JSONDecodeError
\* subclasses ValueError, and not the other way round
Bases(cls) ==
    CASE cls = "JSONDecodeError" -> {"JSONDecodeError", "ValueError", "Exception"}
      [] cls = "ValueError"      -> {"ValueError", "Exception"}
      [] OTHER                   -> {cls, "Exception"}

\* isinstance(exc, cls), which is how an except clause selects
IsInstance(exc, cls) == cls \in Bases(exc)

Return(v) == [kind |-> "return", value |-> v]
Raise(e)  == [kind |-> "raise", exc |-> e]

----------------------------------------------------------------------------
(* RecipeGenerator._create_fallback_recipe and _parse_recipe_response.     *)

CreateFallbackRecipe(text, uuid, now) ==
    [id           |-> uuid,
     title        |-> "AI Generated Recipe",
     description  |-> "Recipe generated by AI",
     prep_time    |-> "20 minutes",
     cook_time    |-> "30 minutes",
     total_time   |-> "50 minutes",
     servings     |-> 4,
     difficulty   |-> "medium",
     cuisine      |-> "various",
     ingredients  |-> <<>>,
     instructions |-> <<text>>,
     nutrition    |-> EmptyDict,
     tags         |-> <<"ai-generated">>,
     tips         |-> <<>>,
     created_at   |-> now,
     source       |-> "ai_generated"]

JsonStrToFirstClose(text) ==
    LET start == Find(text, LBrace)
        after == {i \in 1..Len(text) : i > start /\ Is(text[i], RBrace)}
    IN  IF after = {} THEN <<>>
        ELSE Slice(text, start, CHOOSE i \in after : \A j \in after : i <= j)

\* the slice json.loads is given: response_text[start_idx:end_idx]
JsonStr(text) ==
    Slice(text, Find(text, LBrace), RFind(text, RBrace) + 1)

\* the exception the try block raises, None when it reaches its return
TryRaises(text) ==
    LET start_idx == Find(text, LBrace)
        end_idx   == RFind(text, RBrace) + 1
    IN  IF start_idx = -1 \/ end_idx = 0 THEN "ValueError"
        ELSE IF ~Loads(JsonStr(text)).ok THEN "JSONDecodeError"
        ELSE None

\* the try block's return value: the parsed dict with the metadata added
AddMetadataKeepingModelValues(recipe, uuid, now) ==
    [k \in (DOMAIN recipe) \cup {"id", "created_at", "source"} |->
        IF k \in DOMAIN recipe THEN recipe[k]
        ELSE IF k = "id" THEN uuid
        ELSE IF k = "created_at" THEN now
        ELSE "ai_generated"]

AddMetadata(recipe, uuid, now) ==
    SetItem(SetItem(SetItem(recipe, "id", uuid), "created_at", now),
            "source", "ai_generated")

ParseRecipeResponse(text, uuid, now) ==
    LET exc == TryRaises(text)
    IN  IF exc = None
        THEN Return(AddMetadata(Loads(JsonStr(text)).val, uuid, now))
        ELSE IF IsInstance(exc, "JSONDecodeError")
        THEN Return(CreateFallbackRecipe(text, uuid, now))
        ELSE Raise(exc)

----------------------------------------------------------------------------
(* RecipeGenerator._build_prompt.  A prompt is the sequence of the pieces  *)
(* the f-strings and the += put one after the other.                       *)

\* sep.join(items)
RECURSIVE Join(_, _)
Join(sep, items) ==
    IF Len(items) = 0 THEN <<>>
    ELSE IF Len(items) = 1 THEN <<items[1]>>
    ELSE <<items[1], sep>> \o Join(sep, Tail(items))

\* bool(s) of an optional str: None and "" are false
TruthyStr(s) == s # None /\ s # ""

\* bool(l) of a list: the empty list is false
TruthyList(l) == Len(l) > 0

PromptHead == "Generate a detailed recipe using the following ingredients: "
DifficultyLine == "\n\nRequirements:\n- Difficulty level: "
DietaryLine == "- Dietary restrictions: "
CuisineLine == "- Cuisine type: "
MealLine == "- Meal type: "
\* the fixed text from "Please provide the recipe in the following JSON format"
PromptFooter == "\nPlease provide the recipe in the following JSON format: ..."

BuildPromptNotNone(ingredients, dietary_restrictions, cuisine_type, meal_type, difficulty) ==
    <<PromptHead>> \o Join(", ", ingredients)
    \o <<DifficultyLine, difficulty, "\n">>
    \o (IF TruthyList(dietary_restrictions)
        THEN <<DietaryLine>> \o Join(", ", dietary_restrictions) \o <<"\n">>
        ELSE <<>>)
    \o (IF cuisine_type # None THEN <<CuisineLine, cuisine_type, "\n">> ELSE <<>>)
    \o (IF meal_type # None THEN <<MealLine, meal_type, "\n">> ELSE <<>>)
    \o <<PromptFooter>>

BuildPrompt(ingredients, dietary_restrictions, cuisine_type, meal_type, difficulty) ==
    <<PromptHead>> \o Join(", ", ingredients)
    \o <<DifficultyLine, difficulty, "\n">>
    \o (IF TruthyList(dietary_restrictions)
        THEN <<DietaryLine>> \o Join(", ", dietary_restrictions) \o <<"\n">>
        ELSE <<>>)
    \o (IF TruthyStr(cuisine_type) THEN <<CuisineLine, cuisine_type, "\n">> ELSE <<>>)
    \o (IF TruthyStr(meal_type) THEN <<MealLine, meal_type, "\n">> ELSE <<>>)
    \o <<PromptFooter>>

----------------------------------------------------------------------------
(* lambda_handler: its responses and the arguments it reads from the body. *)

Headers ==
    [ContentType |-> "application/json",
     AccessControlAllowOrigin |-> "*",
     AccessControlAllowHeaders |-> "Content-Type,Authorization",
     AccessControlAllowMethods |-> "POST,OPTIONS"]

\* the return of the validation branch
ValidationResponse ==
    [statusCode |-> 400, headers |-> Headers,
     body |-> [error |-> "Ingredients list is required"]]

\* the return of the handler after put_item or without it
OkResponse(recipe) ==
    [statusCode |-> 200, headers |-> Headers, body |-> recipe]

ErrorResponseWithDetail(e) ==
    [statusCode |-> 500, headers |-> Headers, body |-> [error |-> e]]

\* the return of `except Exception as e`: e is logged and not returned
ErrorResponse(e) ==
    [statusCode |-> 500, headers |-> Headers,
     body |-> [error |-> "Internal server error"]]

\* json.loads(event.get('body', '{}')): a body that is absent is the empty
\* object; a body that is no JSON object text makes the handler raise
LoadsBody(ev) ==
    IF "body" \notin DOMAIN ev THEN [ok |-> TRUE, val |-> EmptyDict]
    ELSE [ok |-> ev.body.json_ok, val |-> ev.body.value]

\* the parameters extracted from the body, with their defaults
ExtractArgs(body) ==
    [ingredients          |-> Get(body, "ingredients", <<>>),
     dietary_restrictions |-> Get(body, "dietary_restrictions", <<>>),
     cuisine_type         |-> Get(body, "cuisine_type", None),
     meal_type            |-> Get(body, "meal_type", None),
     difficulty           |-> Get(body, "difficulty", "medium"),
     save_to_db           |-> Get(body, "save_to_db", TRUE)]

IngredientsNeverMissing(ingredients) == FALSE

\* `if not ingredients`
IngredientsMissing(ingredients) == ~TruthyList(ingredients)

ShouldSaveAlways(save_to_db) == TRUE

\* `if save_to_db`
ShouldSave(save_to_db) == save_to_db

AfterPutFailing(recipe, ok) ==
    IF ok THEN OkResponse(recipe) ELSE ErrorResponse("ClientError")

\* the return of the handler after a put_item that succeeded (ok) or raised:
\* the except clause around put_item logs and goes on
AfterPut(recipe, ok) == OkResponse(recipe)

----------------------------------------------------------------------------
(* The generated texts the model draws from.                               *)

\* the tokens of the enumerated texts
Alphabet ==
    {LBrace, RBrace, Colon, Comma, Str("title"), Num(2), Text("enjoy")}

\* the keys a generated JSON object may carry, in the order it writes them
ModelKeys == <<"id", "created_at", "source", "title", "servings", "nutrition">>

\* the value the generated object gives a key
ModelValue(key) ==
    CASE key = "id"         -> "model-id"
      [] key = "created_at" -> "1999-12-31T23:59:59"
      [] key = "source"     -> "human"
      [] key = "title"      -> "Pasta"
      [] key = "servings"   -> 2
      [] key = "nutrition"  -> EmptyDict

\* the tokens that write ModelValue(key)
ModelValueTokens(key) ==
    CASE key = "servings"  -> <<Num(ModelValue(key))>>
      [] key = "nutrition" -> <<LBrace, RBrace>>
      [] OTHER             -> <<Str(ModelValue(key))>>

\* the members of the object whose keys are S, from the i-th key on
RECURSIVE RenderMembers(_, _, _)
RenderMembers(S, i, first) ==
    IF i > Len(ModelKeys) THEN <<>>
    ELSE IF ModelKeys[i] \notin S THEN RenderMembers(S, i + 1, first)
    ELSE (IF first THEN <<>> ELSE <<Comma>>)
         \o <<Str(ModelKeys[i]), Colon>> \o ModelValueTokens(ModelKeys[i])
         \o RenderMembers(S, i + 1, FALSE)

\* the text of the JSON object whose keys are S
Render(S) == <<LBrace>> \o RenderMembers(S, 1, TRUE) \o <<RBrace>>

\* what may stand before and after an embedded object
Pads == SeqsUpTo({LBrace, RBrace, Text("enjoy")}, MaxPad)

\* a JSON object with text around it
EmbeddedTexts ==
    {pre \o Render(S) \o post :
        pre \in Pads, post \in Pads, S \in SUBSET {ModelKeys[i] : i \in 1..Len(ModelKeys)}}

\* two JSON objects, one after the other, with text between them
TwoBlockTexts ==
    {Render(S1) \o mid \o Render(S2) :
        S1 \in SUBSET {"title", "servings"}, S2 \in SUBSET {"title", "servings"},
        mid \in Pads}

RawTexts == SeqsUpTo(Alphabet, MaxLen) \cup EmbeddedTexts \cup TwoBlockTexts

----------------------------------------------------------------------------
(* Specification of one call of _parse_recipe_response.                    *)

NoArgs == ExtractArgs(EmptyDict)
NoResponse == [statusCode |-> 0, body |-> None]
NoOutcome == [kind |-> "none"]
NotGenerated == [id |-> None, created_at |-> None]

InitNormalize ==
    /\ pc = "parse"
    /\ event = EmptyDict
    /\ args = NoArgs
    /\ prompt = <<>>
    /\ response_text \in RawTexts
    /\ generated = NotGenerated
    /\ outcome = NoOutcome
    /\ invoke_calls = <<>>
    /\ put_calls = <<>>
    /\ response = NoResponse

\* self._parse_recipe_response(generated_text)
Normalize ==
    /\ pc = "parse"
    /\ \E g \in Generations :
          /\ outcome' = ParseRecipeResponse(response_text, g.id, g.created_at)
          /\ generated' = IF outcome'.kind = "return" THEN g ELSE NotGenerated
    /\ pc' = "parsed"
    /\ UNCHANGED <<event, args, prompt, response_text, invoke_calls, put_calls,
                   response>>

NextNormalize == Normalize

SpecNormalize == InitNormalize /\ [][NextNormalize]_vars

----------------------------------------------------------------------------
(* Properties of _parse_recipe_response, under SpecNormalize.              *)

\* C1: whatever the text, _parse_recipe_response returns, and what it
\* returns has a non-empty id and a non-empty created_at
C1_NormalizeTotal ==
    pc = "parsed" =>
        /\ outcome.kind = "return"
        /\ outcome.value.id # ""
        /\ outcome.value.created_at # ""

\* the text has no "{" or has no "}"
LacksBrace(text) ==
    \/ \A i \in 1..Len(text) : ~Is(text[i], LBrace)
    \/ \A i \in 1..Len(text) : ~Is(text[i], RBrace)

\* the recipe is the fallback recipe for this text
IsFallback(recipe, text) ==
    /\ DOMAIN recipe = {"id", "title", "description", "prep_time", "cook_time",
                        "total_time", "servings", "difficulty", "cuisine",
                        "ingredients", "instructions", "nutrition", "tags",
                        "tips", "created_at", "source"}
    /\ recipe.instructions = <<text>>
    /\ recipe.tags = <<"ai-generated">>
    /\ recipe.ingredients = <<>>
    /\ recipe.servings = 4
    /\ recipe.difficulty = "medium"
    /\ recipe.cuisine = "various"
    /\ recipe.source = "ai_generated"

\* C2: a text with no "{" or with no "}" gives the fallback recipe, its
\* instructions the whole text
C2_NoBraceFallback ==
    (pc = "parsed" /\ LacksBrace(response_text)) =>
        /\ outcome.kind = "return"
        /\ IsFallback(outcome.value, response_text)

ProvenanceKeys == {"id", "created_at", "source"}

\* the keys the text writes: a string token followed by ":"
WrittenKeys(text) ==
    {text[i].val : i \in {j \in 1..(Len(text) - 1) :
                              text[j].type = "string" /\ Is(text[j + 1], Colon)}}

\* the text is the object with keys S between two runs of prose
EmbedsObject(text, S) ==
    \E n \in 0..MaxPad, m \in 0..MaxPad :
        text = [i \in 1..n |-> Text("enjoy")] \o Render(S) \o [i \in 1..m |-> Text("enjoy")]

\* C3: when the slice parses, id, created_at and source are the ones
\* generated in the call, whatever the parsed object carries under those
\* keys; every other parsed field is returned as parsed and no field is added
C3_ProvenanceIntegrity ==
    pc = "parsed" =>
        /\ Loads(JsonStr(response_text)).ok =>
              LET parsed == Loads(JsonStr(response_text)).val
                  recipe == outcome.value
              IN  /\ outcome.kind = "return"
                  /\ generated.id \in Uuids /\ recipe.id = generated.id
                  /\ generated.created_at \in Timestamps
                  /\ recipe.created_at = generated.created_at
                  /\ recipe.source = "ai_generated"
                  /\ DOMAIN recipe = (DOMAIN parsed) \cup ProvenanceKeys
                  /\ \A k \in (DOMAIN parsed) \ ProvenanceKeys : recipe[k] = parsed[k]
        /\ LET S == WrittenKeys(response_text)
           IN  (S \subseteq {ModelKeys[i] : i \in 1..Len(ModelKeys)}
                    /\ EmbedsObject(response_text, S)) =>
                  /\ outcome.kind = "return"
                  /\ DOMAIN outcome.value = S \cup ProvenanceKeys
                  /\ \A k \in S \ ProvenanceKeys : outcome.value[k] = ModelValue(k)
                  /\ outcome.value.id = generated.id
                  /\ outcome.value.created_at = generated.created_at
                  /\ outcome.value.source = "ai_generated"

\* a text whose object has its own id, created_at and source was parsed
C3_Witness ==
    /\ pc = "parsed"
    /\ response_text = <<Text("enjoy")>>
                        \o Render({"id", "created_at", "source", "title", "servings"})
                        \o <<Text("enjoy")>>
    /\ outcome.kind = "return"
    /\ outcome.value.id = generated.id /\ outcome.value.id # ModelValue("id")
    /\ outcome.value.title = "Pasta" /\ outcome.value.servings = 2
    /\ "nutrition" \notin DOMAIN outcome.value

IsBrace(tok) == Is(tok, LBrace) \/ Is(tok, RBrace)

\* where the block that opens at index a closes: the scan is at index k with
\* depth braces open; 0 when the block never closes
RECURSIVE BlockEnd(_, _, _)
BlockEnd(text, k, depth) ==
    IF k > Len(text) THEN 0
    ELSE IF Is(text[k], LBrace) THEN BlockEnd(text, k + 1, depth + 1)
    ELSE IF Is(text[k], RBrace)
         THEN IF depth = 1 THEN k ELSE BlockEnd(text, k + 1, depth - 1)
    ELSE BlockEnd(text, k + 1, depth)

\* the index of the first brace of text[from..], 0 when there is none
RECURSIVE NextBrace(_, _)
NextBrace(text, from) ==
    IF from > Len(text) THEN 0
    ELSE IF IsBrace(text[from]) THEN from
    ELSE NextBrace(text, from + 1)

\* the text is two brace blocks, text[a..b] and text[c..d], with text between
\* them, and with no other brace before, between or after them
TwoBlocks(text) ==
    LET a == NextBrace(text, 1)
        b == IF a > 0 /\ Is(text[a], LBrace) THEN BlockEnd(text, a, 0) ELSE 0
        c == IF b > 0 THEN NextBrace(text, b + 1) ELSE 0
        d == IF c > 0 /\ Is(text[c], LBrace) THEN BlockEnd(text, c, 0) ELSE 0
    IN  d > 0 /\ b + 1 < c /\ NextBrace(text, d + 1) = 0

\* C4: for two separate brace blocks with text between them the slice runs
\* from the first "{" to the last "}", it does not parse, and the result is
\* the fallback recipe whose instructions are the whole text
C4_FirstToLastSlice ==
    (pc = "parsed" /\ TwoBlocks(response_text)) =>
        LET a == NextBrace(response_text, 1)
            d == CHOOSE k \in 1..Len(response_text) :
                    /\ Is(response_text[k], RBrace)
                    /\ NextBrace(response_text, k + 1) = 0
        IN  /\ JsonStr(response_text) = SubSeq(response_text, a, d)
            /\ ~Loads(JsonStr(response_text)).ok
            /\ outcome.kind = "return"
            /\ IsFallback(outcome.value, response_text)

\* two blocks, each valid JSON alone, were given and the fallback came back
C4_Witness ==
    /\ pc = "parsed"
    /\ response_text = Render({"servings"}) \o <<Text("enjoy")>> \o Render({"title"})
    /\ TwoBlocks(response_text)
    /\ Loads(Render({"servings"})).ok /\ Loads(Render({"title"})).ok
    /\ outcome.kind = "return"
    /\ outcome.value.instructions = <<response_text>>

----------------------------------------------------------------------------
(* Specification of one call of _build_prompt.                             *)

\* the requests _build_prompt is called with: ingredients is non-empty
PromptArgs ==
    [ingredients          : SeqsUpTo({"tomato", "basil"}, MaxIngredients) \ {<<>>},
     dietary_restrictions : SeqsUpTo({"vegan", "gluten-free"}, MaxIngredients),
     cuisine_type         : {None, "", "italian"},
     meal_type            : {None, "", "dinner"},
     difficulty           : {"easy", "medium"},
     save_to_db           : {TRUE}]

InitPrompt ==
    /\ pc = "build"
    /\ event = EmptyDict
    /\ args \in PromptArgs
    /\ prompt = <<>>
    /\ response_text = <<>>
    /\ generated = NotGenerated
    /\ outcome = NoOutcome
    /\ invoke_calls = <<>>
    /\ put_calls = <<>>
    /\ response = NoResponse

\* self._build_prompt(ingredients, dietary_restrictions, cuisine_type, ...)
Build ==
    /\ pc = "build"
    /\ prompt' = BuildPrompt(args.ingredients, args.dietary_restrictions,
                             args.cuisine_type, args.meal_type, args.difficulty)
    /\ pc' = "built"
    /\ UNCHANGED <<event, args, response_text, generated, outcome, invoke_calls,
                   put_calls, response>>

NextPrompt == Build

SpecPrompt == InitPrompt /\ [][NextPrompt]_vars

----------------------------------------------------------------------------
(* Specification of one invocation of lambda_handler.                      *)

\* d restricted to the keys in S
Restrict(d, S) == [k \in S |-> d[k]]

BodyKeys == {"ingredients", "dietary_restrictions", "cuisine_type", "meal_type",
             "difficulty", "save_to_db"}

\* the JSON objects a request body may be: any of the keys may be absent
Bodies ==
    {Restrict(full, S) :
        full \in [ingredients          : SeqsUpTo({"tomato"}, MaxIngredients - 1),
                  dietary_restrictions : {<<"vegan">>},
                  cuisine_type         : {"italian"},
                  meal_type            : {"dinner"},
                  difficulty           : {"easy"},
                  save_to_db           : BOOLEAN],
        S \in SUBSET BodyKeys}

Events ==
    {EmptyDict, [body |-> [json_ok |-> FALSE, value |-> EmptyDict]]}
    \cup {[body |-> [json_ok |-> TRUE, value |-> b]] : b \in Bodies}

\* what invoke_model raises when the call fails
InvokeErrors == {"AccessDeniedException", "ThrottlingException"}

\* the texts invoke_model returns in the handler's specification
HandlerTexts ==
    Pads \cup {<<Text("enjoy")>> \o Render({"title", "servings"}) \o <<Text("enjoy")>>,
               Render({"id", "created_at", "source", "title"}),
               Render({"servings"}) \o <<Text("enjoy")>> \o Render({"title"})}

Init ==
    /\ pc = "start"
    /\ event \in Events
    /\ args = NoArgs
    /\ prompt = <<>>
    /\ response_text = <<>>
    /\ generated = NotGenerated
    /\ outcome = NoOutcome
    /\ invoke_calls = <<>>
    /\ put_calls = <<>>
    /\ response = NoResponse

\* lambda_handler up to the call of generate_recipe: the body is parsed, the
\* parameters are extracted and the ingredients validated
Validate ==
    /\ pc = "start"
    /\ LET body == LoadsBody(event)
       IN  IF ~body.ok
           THEN /\ response' = ErrorResponse("JSONDecodeError")
                /\ pc' = "done"
                /\ args' = args
           ELSE /\ args' = ExtractArgs(body.val)
                /\ IF IngredientsMissing(args'.ingredients)
                   THEN response' = ValidationResponse /\ pc' = "done"
                   ELSE response' = response /\ pc' = "generate"
    /\ UNCHANGED <<event, prompt, response_text, generated, outcome, invoke_calls,
                   put_calls>>

\* generate_recipe up to the generated text: the prompt is built and
\* invoke_model is called and returns a text
InvokeModelReturns ==
    /\ pc = "generate"
    /\ prompt' = BuildPrompt(args.ingredients, args.dietary_restrictions,
                             args.cuisine_type, args.meal_type, args.difficulty)
    /\ \E text \in HandlerTexts :
          /\ invoke_calls' = Append(invoke_calls, [prompt |-> prompt', ok |-> TRUE])
          /\ response_text' = text
    /\ pc' = "parse"
    /\ UNCHANGED <<event, args, generated, outcome, put_calls, response>>

\* invoke_model raises: generate_recipe logs and re-raises, and the handler's
\* except clause returns the error response
InvokeModelRaises ==
    /\ pc = "generate"
    /\ prompt' = BuildPrompt(args.ingredients, args.dietary_restrictions,
                             args.cuisine_type, args.meal_type, args.difficulty)
    /\ \E e \in InvokeErrors :
          /\ invoke_calls' = Append(invoke_calls,
                                    [prompt |-> prompt', ok |-> FALSE, error |-> e])
          /\ response' = ErrorResponse(e)
    /\ pc' = "done"
    /\ UNCHANGED <<event, args, response_text, generated, outcome, put_calls>>

\* _parse_recipe_response raised: generate_recipe re-raises and the handler's
\* except clause returns the error response
ParseRaises ==
    /\ pc = "parsed"
    /\ outcome.kind = "raise"
    /\ response' = ErrorResponse(outcome.exc)
    /\ pc' = "done"
    /\ UNCHANGED <<event, args, prompt, response_text, generated, outcome,
                   invoke_calls, put_calls>>

\* save_to_db is true: table.put_item(Item=recipe) is called and succeeds or
\* raises, and the handler returns
PutItem ==
    /\ pc = "parsed"
    /\ outcome.kind = "return"
    /\ ShouldSave(args.save_to_db)
    /\ \E ok \in BOOLEAN :
          /\ put_calls' = Append(put_calls, [Item |-> outcome.value, ok |-> ok])
          /\ response' = AfterPut(outcome.value, ok)
    /\ pc' = "done"
    /\ UNCHANGED <<event, args, prompt, response_text, generated, outcome,
                   invoke_calls>>

\* save_to_db is false: the handler returns without a put_item
SkipPut ==
    /\ pc = "parsed"
    /\ outcome.kind = "return"
    /\ ~ShouldSave(args.save_to_db)
    /\ response' = OkResponse(outcome.value)
    /\ pc' = "done"
    /\ UNCHANGED <<event, args, prompt, response_text, generated, outcome,
                   invoke_calls, put_calls>>

Next ==
    \/ Validate
    \/ InvokeModelReturns
    \/ InvokeModelRaises
    \/ Normalize
    \/ ParseRaises
    \/ PutItem
    \/ SkipPut

Spec == Init /\ [][Next]_vars

----------------------------------------------------------------------------
(* Properties of lambda_handler, under Spec.                               *)

InvokeSucceeded == invoke_calls # <<>> /\ invoke_calls[1].ok
InvokeFailed == invoke_calls # <<>> /\ ~invoke_calls[1].ok

\* C5: when the inference call succeeded the handler answers 200 with a
\* recipe, whatever the generated text
C5_MalformedOutputAbsorbed ==
    (pc = "done" /\ InvokeSucceeded) =>
        /\ response.statusCode = 200
        /\ outcome.kind = "return"
        /\ response.body = outcome.value

\* the request body is a JSON object whose ingredients is absent or empty
NoIngredients ==
    \/ "body" \notin DOMAIN event
    \/ /\ event.body.json_ok
       /\ \/ "ingredients" \notin DOMAIN event.body.value
          \/ event.body.value.ingredients = <<>>

\* C6: with ingredients absent or empty the handler answers 400 with a
\* message, and neither invoke_model nor put_item is ever called
C6_ValidationBeforeInference ==
    NoIngredients =>
        /\ invoke_calls = <<>>
        /\ put_calls = <<>>
        /\ pc \in {"start", "done"}
        /\ pc = "done" =>
              /\ response.statusCode = 400
              /\ response.body = [error |-> "Ingredients list is required"]

\* a request with an empty ingredients list, asking to save, was answered
C6_Witness ==
    /\ pc = "done"
    /\ "body" \in DOMAIN event
    /\ "ingredients" \in DOMAIN event.body.value
    /\ event.body.value.ingredients = <<>>
    /\ "save_to_db" \in DOMAIN event.body.value
    /\ event.body.value.save_to_db
    /\ response.statusCode = 400

\* C7: the response after a put_item that raised is the response after a
\* put_item that succeeded: 200 with the recipe that was generated
C7_BestEffortPersistence ==
    (pc = "done" /\ put_calls # <<>>) =>
        /\ response.statusCode = 200
        /\ response.headers = Headers
        /\ outcome.kind = "return"
        /\ response.body = outcome.value

\* a put_item raised and the handler answered 200
C7_Witness ==
    /\ pc = "done"
    /\ put_calls # <<>>
    /\ ~put_calls[1].ok
    /\ response.statusCode = 200
    /\ response.body = put_calls[1].Item

\* C8: when invoke_model raises the handler answers 500 with the fixed
\* message, whatever was raised; no recipe exists and put_item is not called
C8_InferenceFailure ==
    (pc = "done" /\ InvokeFailed) =>
        /\ response.statusCode = 500
        /\ response.body = [error |-> "Internal server error"]
        /\ outcome.kind = "none"
        /\ put_calls = <<>>

\* invoke_model raised for a request that asked to save
C8_Witness ==
    /\ pc = "done"
    /\ InvokeFailed
    /\ invoke_calls[1].error = "ThrottlingException"
    /\ args.save_to_db
    /\ response.statusCode = 500

\* the request body leaves save_to_db out or gives it as true
SaveRequested ==
    /\ "body" \in DOMAIN event
    /\ event.body.json_ok
    /\ \/ "save_to_db" \notin DOMAIN event.body.value
       \/ event.body.value.save_to_db

\* C10: put_item is called at most once, only when save_to_db is true or
\* absent and only once invoke_model has returned and the text has been
\* parsed into the recipe; the item put is the recipe of the 200 response;
\* with save_to_db false there is no put_item and the response is the recipe
C10_PersistenceOrder ==
    /\ Len(put_calls) <= 1
    /\ put_calls # <<>> =>
          /\ SaveRequested
          /\ InvokeSucceeded
          /\ outcome.kind = "return"
          /\ put_calls[1].Item = outcome.value
          /\ response.statusCode = 200
          /\ response.body = put_calls[1].Item
          /\ response.body.id = put_calls[1].Item.id
    /\ (pc = "done" /\ outcome.kind = "return" /\ ~SaveRequested) =>
          /\ put_calls = <<>>
          /\ response.statusCode = 200
          /\ response.body = outcome.value

\* a request without save_to_db had its recipe put and returned
C10_Witness ==
    /\ pc = "done"
    /\ "body" \in DOMAIN event
    /\ "save_to_db" \notin DOMAIN event.body.value
    /\ Len(put_calls) = 1
    /\ response.statusCode = 200
    /\ response.body.id = put_calls[1].Item.id

----------------------------------------------------------------------------
(* Properties of _build_prompt, under SpecPrompt.                          *)

\* the piece occurs in the prompt
Contains(p, piece) == \E i \in 1..Len(p) : p[i] = piece

\* the line that starts with label and gives value is in the prompt
HasLine(p, label, value) ==
    \E i \in 1..(Len(p) - 2) : p[i] = label /\ p[i + 1] = value /\ p[i + 2] = "\n"

\* what C9 says of the ingredients, the difficulty and the dietary line
C9_Always ==
    /\ \A i \in 1..Len(args.ingredients) : Contains(prompt, args.ingredients[i])
    /\ Contains(prompt, args.difficulty)
    /\ Contains(prompt, DietaryLine) <=> args.dietary_restrictions # <<>>
    /\ \A i \in 1..Len(args.dietary_restrictions) :
          Contains(prompt, args.dietary_restrictions[i])

\* C9 as stated: the prompt has every ingredient and the difficulty, the
\* dietary line iff the list is non-empty, and the cuisine and meal lines iff
\* a cuisine type and a meal type are provided
C9_LinesIffProvided ==
    pc = "built" =>
        /\ C9_Always
        /\ Contains(prompt, CuisineLine) <=> args.cuisine_type # None
        /\ Contains(prompt, MealLine) <=> args.meal_type # None

\* C9 as amended: the cuisine and meal lines are there iff the cuisine type
\* and the meal type are provided and are not the empty string
C9_LinesIffNonEmpty ==
    pc = "built" =>
        /\ C9_Always
        /\ Contains(prompt, CuisineLine) <=> args.cuisine_type \notin {None, ""}
        /\ Contains(prompt, MealLine) <=> args.meal_type \notin {None, ""}
        /\ args.cuisine_type \notin {None, ""} =>
              HasLine(prompt, CuisineLine, args.cuisine_type)
        /\ args.meal_type \notin {None, ""} =>
              HasLine(prompt, MealLine, args.meal_type)

\* a prompt was built for an empty cuisine type and a given meal type
C9_Witness ==
    /\ pc = "built"
    /\ args.cuisine_type = "" /\ args.meal_type = "dinner"
    /\ Len(args.ingredients) = 2 /\ args.dietary_restrictions # <<>>
    /\ ~Contains(prompt, CuisineLine)
    /\ HasLine(prompt, MealLine, "dinner")

====
